---- MODULE Spec2Model ----
(***************************************************************************)
(* Model of GitDiffView (lib/git-diff-view.js): the gutter decorations of  *)
(* one editor, recomputed from asynchronously fetched file patches, and    *)
(* the next/previous diff navigation.                                      *)
(***************************************************************************)
EXTENDS Integers, Sequences, FiniteSets, TLC

\* ---------------------------------------------------------------- bounds
MaxLine      == 2   \* largest 1-based newStart a fetched hunk may have
MaxFetches   == 2   \* most patch fetches issued in one behaviour
MaxSchedules == 2   \* most setImmediate handles created in one behaviour
NavLine      == 4   \* largest newStart in the navigation specification
NavHunks     == 3   \* most hunks in the navigation specification
SyncLine     == 7   \* largest newStart in the decoration specification
SyncCount    == 3   \* largest line count in the decoration specification
SyncHunks    == 1   \* most hunks in the decoration specification

VARIABLES
  markers,          \* this.markers: sequence of marker handles
  destroyedMarkers, \* ids of the markers on which destroy() has been called
  nextMarkerId,     \* identity of the next marker editor.markBufferRange makes
  diffs,            \* this.diffs: [set |-> FALSE] while undefined
  cursorRow,        \* editor.getCursorBufferPosition().row
  editorDestroyed,  \* editor.isDestroyed()
  disposed,         \* this.subscriptions has been disposed
  immediateId,      \* this.immediateId (0 while undefined)
  immediates,       \* handles of the setImmediate callbacks still queued
  nextHandle,       \* the next handle setImmediate returns
  inflight,         \* issue numbers of the updateDiffs calls at the await
  nextTok,          \* issue number of the next patch fetch
  maxApplied,       \* issue number of the latest-issued fetch that resolved
  lastOp            \* the handler that ran last, with its inputs

vars == <<markers, destroyedMarkers, nextMarkerId, diffs, cursorRow,
          editorDestroyed, disposed,
          immediateId, immediates, nextHandle, inflight, nextTok, maxApplied,
          lastOp>>

\* ------------------------------------------------------------ data domain
RepoStates == {"none", "loading", "absent", "present"}

Hunk(ns, ol, nl) == [newStart |-> ns, oldLines |-> ol, newLines |-> nl]

\* hunks with 1-based start <= l and counts <= c, never both counts zero
Hunks(l, c) ==
  {h \in [newStart : 1..l, oldLines : 0..c, newLines : 0..c] :
     h.oldLines + h.newLines > 0}

\* all sequences over S of length at most n
SeqsUpTo(S, n) == UNION {[1..k -> S] : k \in 0..n}

\* The patches fetched in the main specification: any set of one-line
\* hunks, in file order; the hunk on line n adds a line, removes a line or
\* modifies a line, by n.
LineHunk(n) ==
  Hunk(n, IF n % 3 = 1 THEN 0 ELSE 1, IF n % 3 = 2 THEN 0 ELSE 1)

Ordered(s) == \A i \in 1..(Len(s) - 1) : s[i].newStart < s[i + 1].newStart

Patches ==
  {s \in SeqsUpTo({LineHunk(n) : n \in 1..MaxLine}, MaxLine) : Ordered(s)}

NoPatch == [patch |-> FALSE, hunks |-> <<>>]
FilePatch(s) == [patch |-> TRUE, hunks |-> s]
FetchResults == {NoPatch} \cup {FilePatch(s) : s \in Patches}

Undefined == [set |-> FALSE, hunks |-> <<>>]
Defined(s) == [set |-> TRUE, hunks |-> s]

MaxRow == NavLine + 1

Null == <<>>
Num(n) == <<n>>
Min(a, b) == IF a < b THEN a ELSE b
Max(a, b) == IF a > b THEN a ELSE b

\* ------------------------------------------------- decorations (169-196)
MarkerIds(ms) == {ms[i].id : i \in 1..Len(ms)}

\* variant: the marker is created but not pushed onto this.markers
MarkRangeUntracked(ms, id, startRow, endRow, klass) == ms

\* markRange: a new marker on [[startRow, 0], [endRow, 0]] carrying klass
MarkRange(ms, id, startRow, endRow, klass) ==
  Append(ms, [id |-> id, startRow |-> startRow, endRow |-> endRow,
              klass |-> klass])

StartRow(h) == h.newStart - 1

\* variant: the end row taken as the last row of the hunk
EndRowLastLine(h) == h.newStart + h.newLines - 2

EndRow(h) == h.newStart + h.newLines - 1

\* variant: every hunk with new lines is tagged as added
DecorationAddedFirst(h) ==
  IF h.newLines > 0
  THEN [startRow |-> StartRow(h), endRow |-> EndRow(h),
        klass |-> "git-line-added"]
  ELSE IF h.newLines = 0 /\ h.oldLines > 0
  THEN [startRow |-> StartRow(h), endRow |-> StartRow(h),
        klass |-> "git-line-removed"]
  ELSE [startRow |-> StartRow(h), endRow |-> EndRow(h),
        klass |-> "git-line-modified"]

\* variant: a removal marked over as many rows as it removed
DecorationRemovedSpan(h) ==
  IF h.oldLines = 0 /\ h.newLines > 0
  THEN [startRow |-> StartRow(h), endRow |-> EndRow(h),
        klass |-> "git-line-added"]
  ELSE IF h.newLines = 0 /\ h.oldLines > 0
  THEN [startRow |-> StartRow(h), endRow |-> StartRow(h) + h.oldLines - 1,
        klass |-> "git-line-removed"]
  ELSE [startRow |-> StartRow(h), endRow |-> EndRow(h),
        klass |-> "git-line-modified"]

\* the arguments addDecorations passes to markRange for one hunk
Decoration(h) ==
  IF h.oldLines = 0 /\ h.newLines > 0
  THEN [startRow |-> StartRow(h), endRow |-> EndRow(h),
        klass |-> "git-line-added"]
  ELSE IF h.newLines = 0 /\ h.oldLines > 0
  THEN [startRow |-> StartRow(h), endRow |-> StartRow(h),
        klass |-> "git-line-removed"]
  ELSE [startRow |-> StartRow(h), endRow |-> EndRow(h),
        klass |-> "git-line-modified"]

\* variant: only the first hunk gets its marker
AddDecorationsFirst(ms, id, ds) ==
  IF ds = <<>> THEN ms
  ELSE LET d == Decoration(Head(ds))
       IN MarkRange(ms, id, d.startRow, d.endRow, d.klass)

RECURSIVE AddDecorations(_, _, _)
AddDecorations(ms, id, ds) ==
  IF ds = <<>> THEN ms
  ELSE LET d == Decoration(Head(ds))
       IN AddDecorations(MarkRange(ms, id, d.startRow, d.endRow, d.klass),
                         id + 1, Tail(ds))

\* variant: the markers are destroyed but this.markers is not reset
RemoveDecorationsKeeps(ms) == ms

\* removeDecorations: what this.markers is afterwards
RemoveDecorations(ms) == <<>>

\* variant: marker.destroy() is not called
DestroyNone(ms, dead) == dead

\* removeDecorations: the markers destroyed afterwards
DestroyAll(ms, dead) == dead \cup MarkerIds(ms)

\* ---------------------------------------------------- navigation (59-131)
RECURSIVE NextLoop(_, _, _, _)
NextLoop(ds, cursorLineNumber, nextDiffLineNumber, firstDiffLineNumber) ==
  IF ds = <<>>
  THEN [next |-> nextDiffLineNumber, first |-> firstDiffLineNumber]
  ELSE LET newStart == Head(ds).newStart
           n == IF newStart > cursorLineNumber
                THEN Num(Min(newStart - 1,
                             IF nextDiffLineNumber = Null THEN newStart - 1
                             ELSE nextDiffLineNumber[1]))
                ELSE nextDiffLineNumber
           f == Num(Min(newStart - 1,
                        IF firstDiffLineNumber = Null THEN newStart - 1
                        ELSE firstDiffLineNumber[1]))
       IN NextLoop(Tail(ds), cursorLineNumber, n, f)

\* variant: the cursor row compared without the conversion to a line number
NextDiffLineNumberSameRow(ds, row) ==
  LET r == NextLoop(ds, row, Null, Null)
  IN IF r.next = Null THEN r.first ELSE r.next

\* the line moveToNextDiff hands to moveToLineNumber
NextDiffLineNumber(ds, row) ==
  LET r == NextLoop(ds, row + 1, Null, Null)
  IN IF r.next = Null THEN r.first ELSE r.next

RECURSIVE PreviousLoop(_, _, _, _)
PreviousLoop(ds, cursorLineNumber, previousDiffLineNumber, lastDiffLineNumber) ==
  IF ds = <<>>
  THEN [previous |-> previousDiffLineNumber, last |-> lastDiffLineNumber]
  ELSE LET newStart == Head(ds).newStart
           p == IF newStart < cursorLineNumber
                THEN Max(newStart - 1, previousDiffLineNumber)
                ELSE previousDiffLineNumber
           l == Max(newStart - 1, lastDiffLineNumber)
       IN PreviousLoop(Tail(ds), cursorLineNumber, p, l)

\* variant: row 0 taken for "nothing found"
PreviousDiffLineNumberZero(ds, row) ==
  LET r == PreviousLoop(ds, row + 1, -1, -1)
  IN IF r.previous <= 0 THEN Num(r.last) ELSE Num(r.previous)

\* the line moveToPreviousDiff hands to moveToLineNumber
PreviousDiffLineNumber(ds, row) ==
  LET r == PreviousLoop(ds, row + 1, -1, -1)
  IN IF r.previous = -1 THEN Num(r.last) ELSE Num(r.previous)

\* variant: the line number is not checked against 0
MoveToLineNumberAny(lineNumber, row) ==
  IF lineNumber # Null
  THEN [row |-> lineNumber[1], moved |-> TRUE]
  ELSE [row |-> row, moved |-> FALSE]

\* moveToLineNumber: the cursor row afterwards, and whether
\* setCursorBufferPosition was called
MoveToLineNumber(lineNumber, row) ==
  IF lineNumber # Null /\ lineNumber[1] >= 0
  THEN [row |-> lineNumber[1], moved |-> TRUE]
  ELSE [row |-> row, moved |-> FALSE]

\* ------------------------------------------------------------- lastOp
\* kind: the handler that ran; flag: a fetch was issued (updateDiffs), a
\* patch was applied (resolve), setCursorBufferPosition was called
\* (navigation), a queued callback was cleared (scheduleUpdate,
\* cancelUpdate, onDidDestroy), the gutter got the icon class
\* (updateIconDecoration); path, repo: what editor.getPath() and
\* getActiveRepository() gave an updateDiffs call; modified: what
\* editor.isModified() gave it; options: the options of the fetch it issued
NoOptions == [content |-> FALSE, context |-> 0]

Op(kind, flag, path, repo, isModified, options) ==
  [kind |-> kind, flag |-> flag, path |-> path, repo |-> repo,
   modified |-> isModified, options |-> options]

Plain(kind, flag) == Op(kind, flag, TRUE, "present", FALSE, NoOptions)

UpdateKinds == {"runImmediate", "didStopChanging", "didChangePath"}

\* ---------------------------------------------------- updateDiffs (142-167)
\* variant: a loading repository is not checked for
PreconditionFailedLoading(isDestroyed, path, repo) ==
  isDestroyed \/ ~path \/ repo = "none" \/ repo = "absent"

PreconditionFailed(isDestroyed, path, repo) ==
  isDestroyed \/ ~path \/ repo = "none" \/ repo = "loading" \/ repo = "absent"

\* variant: the buffer text is always passed
OptionsAlwaysContent(isModified) == [content |-> TRUE, context |-> 0]

\* the options of repository.getFilePatchForPath
Options(isModified) == [content |-> isModified, context |-> 0]

\* the synchronous part of updateDiffs, up to the return or the await;
\* path, repo and isModified are what the editor and getActiveRepository
\* report during the call
UpdateDiffs(kind, path, repo, isModified) ==
  IF PreconditionFailed(editorDestroyed, path, repo)
  THEN /\ markers' = RemoveDecorations(markers)
       /\ destroyedMarkers' = DestroyAll(markers, destroyedMarkers)
       /\ lastOp' = Op(kind, FALSE, path, repo, FALSE, NoOptions)
       /\ UNCHANGED <<inflight, nextTok>>
  ELSE /\ nextTok <= MaxFetches
       /\ inflight' = inflight \cup {nextTok}
       /\ nextTok' = nextTok + 1
       /\ lastOp' = Op(kind, TRUE, path, repo, isModified, Options(isModified))
       /\ UNCHANGED <<markers, destroyedMarkers>>

\* an updateDiffs call in whatever state the editor and repository are in
CallUpdateDiffs(kind) ==
  \E path \in BOOLEAN, repo \in RepoStates, isModified \in BOOLEAN :
     UpdateDiffs(kind, path, repo, isModified)

\* variant: the old markers are removed only when there is a patch
AppliedMarkersPatchOnly(ms, id, filePatch) ==
  IF filePatch.patch
  THEN AddDecorations(RemoveDecorations(ms), id, filePatch.hunks)
  ELSE ms

\* this.markers after lines 154-166
AppliedMarkers(ms, id, filePatch) ==
  IF filePatch.patch
  THEN AddDecorations(RemoveDecorations(ms), id, filePatch.hunks)
  ELSE RemoveDecorations(ms)

\* the rest of updateDiffs, once the awaited fetch has resolved
Resolve(r, filePatch) ==
  /\ r \in inflight
  /\ inflight' = inflight \ {r}
  /\ maxApplied' = Max(maxApplied, r)
  /\ destroyedMarkers' = DestroyAll(markers, destroyedMarkers)
  /\ markers' = AppliedMarkers(markers, nextMarkerId, filePatch)
  /\ IF filePatch.patch
     THEN /\ diffs' = Defined(filePatch.hunks)
          /\ nextMarkerId' = nextMarkerId + Len(filePatch.hunks)
     ELSE UNCHANGED <<diffs, nextMarkerId>>
  /\ lastOp' = Plain("resolve", filePatch.patch)
  /\ UNCHANGED <<cursorRow, editorDestroyed, disposed, immediateId,
                 immediates, nextHandle, nextTok>>

\* the awaited fetch rejects: updateDiffs ends at the await
Reject(r) ==
  /\ r \in inflight
  /\ inflight' = inflight \ {r}
  /\ lastOp' = Plain("reject", FALSE)
  /\ UNCHANGED <<markers, destroyedMarkers, nextMarkerId, diffs, cursorRow,
                 editorDestroyed, disposed, immediateId, immediates,
                 nextHandle, nextTok, maxApplied>>

\* ---------------------------------------------------- scheduling (133-140)
\* variant: clearImmediate leaves the callback queued
ClearImmediateNone(queue, id) == queue

\* clearImmediate(id) on the queue of pending callbacks
ClearImmediate(queue, id) == queue \ {id}

CancelUpdate ==
  /\ immediates' = ClearImmediate(immediates, immediateId)
  /\ lastOp' = Plain("cancelUpdate", immediateId \in immediates)
  /\ UNCHANGED <<markers, destroyedMarkers, nextMarkerId, diffs, cursorRow,
                 editorDestroyed, disposed, immediateId, nextHandle,
                 inflight, nextTok, maxApplied>>

\* an explicit scheduleUpdate call, made while the editor is alive
ScheduleUpdate ==
  /\ ~editorDestroyed
  /\ nextHandle <= MaxSchedules
  /\ immediates' = ClearImmediate(immediates, immediateId) \cup {nextHandle}
  /\ immediateId' = nextHandle
  /\ nextHandle' = nextHandle + 1
  /\ lastOp' = Plain("scheduleUpdate", immediateId \in immediates)
  /\ UNCHANGED <<markers, destroyedMarkers, nextMarkerId, diffs, cursorRow,
                 editorDestroyed, disposed, inflight, nextTok, maxApplied>>

\* the event loop runs a queued setImmediate callback
RunImmediate(h) ==
  /\ h \in immediates
  /\ immediates' = immediates \ {h}
  /\ CallUpdateDiffs("runImmediate")
  /\ UNCHANGED <<nextMarkerId, diffs, cursorRow, editorDestroyed, disposed,
                 immediateId, nextHandle, maxApplied>>

\* --------------------------------------------------- subscriptions (12-34)
\* editor.onDidStopChanging(this.updateDiffs)
DidStopChanging ==
  /\ ~disposed
  /\ CallUpdateDiffs("didStopChanging")
  /\ UNCHANGED <<nextMarkerId, diffs, cursorRow, editorDestroyed, disposed,
                 immediateId, immediates, nextHandle, maxApplied>>

\* editor.onDidChangePath(this.updateDiffs)
DidChangePath ==
  /\ ~disposed
  /\ CallUpdateDiffs("didChangePath")
  /\ UNCHANGED <<nextMarkerId, diffs, cursorRow, editorDestroyed, disposed,
                 immediateId, immediates, nextHandle, maxApplied>>

\* variant: the handler does not call cancelUpdate
DidDestroyNoCancel ==
  /\ ~editorDestroyed
  /\ editorDestroyed' = TRUE
  /\ markers' = RemoveDecorations(markers)
  /\ destroyedMarkers' = DestroyAll(markers, destroyedMarkers)
  /\ disposed' = TRUE
  /\ lastOp' = Plain("didDestroy", FALSE)
  /\ UNCHANGED <<nextMarkerId, diffs, cursorRow, immediateId, immediates,
                 nextHandle, inflight, nextTok, maxApplied>>

\* editor.onDidDestroy handler
DidDestroy ==
  /\ ~editorDestroyed
  /\ editorDestroyed' = TRUE
  /\ immediates' = ClearImmediate(immediates, immediateId)
  /\ markers' = RemoveDecorations(markers)
  /\ destroyedMarkers' = DestroyAll(markers, destroyedMarkers)
  /\ disposed' = TRUE
  /\ lastOp' = Plain("didDestroy", immediateId \in immediates)
  /\ UNCHANGED <<nextMarkerId, diffs, cursorRow, immediateId, nextHandle,
                 inflight, nextTok, maxApplied>>

\* updateIconDecoration: the gutter ends up with the class git-diff-icon
IconClassAdded(showLineNumbers, showIcons, gutter) ==
  showLineNumbers /\ showIcons /\ gutter

\* a configuration change or an attach of the editor element (36-53)
UpdateIconDecoration ==
  /\ ~disposed
  /\ \E showLineNumbers \in BOOLEAN, showIcons \in BOOLEAN, gutter \in BOOLEAN :
       lastOp' = Plain("updateIconDecoration",
                       IconClassAdded(showLineNumbers, showIcons, gutter))
  /\ UNCHANGED <<markers, destroyedMarkers, nextMarkerId, diffs, cursorRow,
                 editorDestroyed, disposed, immediateId, immediates,
                 nextHandle, inflight, nextTok, maxApplied>>

\* moveToNextDiff: the cursor row afterwards and whether the cursor was set
NextDiffMove(d, row) ==
  IF ~d.set THEN [row |-> row, moved |-> FALSE]
  ELSE MoveToLineNumber(NextDiffLineNumber(d.hunks, row), row)

\* moveToPreviousDiff: the same
PreviousDiffMove(d, row) ==
  IF ~d.set THEN [row |-> row, moved |-> FALSE]
  ELSE MoveToLineNumber(PreviousDiffLineNumber(d.hunks, row), row)

\* command git-diff:move-to-next-diff
MoveToNextDiff ==
  /\ ~disposed
  /\ cursorRow' = NextDiffMove(diffs, cursorRow).row
  /\ lastOp' = Plain("moveToNextDiff", NextDiffMove(diffs, cursorRow).moved)
  /\ UNCHANGED <<markers, destroyedMarkers, nextMarkerId, diffs,
                 editorDestroyed, disposed, immediateId, immediates,
                 nextHandle, inflight, nextTok, maxApplied>>

\* command git-diff:move-to-previous-diff
MoveToPreviousDiff ==
  /\ ~disposed
  /\ cursorRow' = PreviousDiffMove(diffs, cursorRow).row
  /\ lastOp' = Plain("moveToPreviousDiff",
                     PreviousDiffMove(diffs, cursorRow).moved)
  /\ UNCHANGED <<markers, destroyedMarkers, nextMarkerId, diffs,
                 editorDestroyed, disposed, immediateId, immediates,
                 nextHandle, inflight, nextTok, maxApplied>>

\* ------------------------------------------------------- specification
\* the state the constructor leaves (6-57)
Init ==
  /\ markers = <<>>
  /\ destroyedMarkers = {}
  /\ nextMarkerId = 1
  /\ diffs = Undefined
  /\ cursorRow = 0
  /\ editorDestroyed = FALSE
  /\ disposed = FALSE
  /\ immediateId = 1
  /\ immediates = {1}
  /\ nextHandle = 2
  /\ inflight = {}
  /\ nextTok = 1
  /\ maxApplied = 0
  /\ lastOp = Plain("constructor", FALSE)

Next ==
  \/ \E h \in immediates : RunImmediate(h)
  \/ DidStopChanging
  \/ DidChangePath
  \/ \E r \in inflight : \E f \in FetchResults : Resolve(r, f)
  \/ \E r \in inflight : Reject(r)
  \/ DidDestroy
  \/ ScheduleUpdate
  \/ CancelUpdate
  \/ MoveToNextDiff
  \/ MoveToPreviousDiff
  \/ UpdateIconDecoration

Spec == Init /\ [][Next]_vars

\* ------------------------------------------- decoration specification
\* One recomputation has issued its fetch; the fetch resolves with any
\* patch over the whole hunk domain, in any order.
SyncResults ==
  {NoPatch} \cup
  {FilePatch(q) : q \in SeqsUpTo(Hunks(SyncLine, SyncCount), SyncHunks)}

InitSync ==
  /\ markers = <<>>
  /\ destroyedMarkers = {}
  /\ nextMarkerId = 1
  /\ diffs = Undefined
  /\ cursorRow = 0
  /\ editorDestroyed = FALSE
  /\ disposed = FALSE
  /\ immediateId = 1
  /\ immediates = {}
  /\ nextHandle = 2
  /\ inflight = {1}
  /\ nextTok = 2
  /\ maxApplied = 0
  /\ \E isModified \in BOOLEAN :
       lastOp = Op("runImmediate", TRUE, TRUE, "present", isModified,
                   Options(isModified))

NextSync == \E r \in inflight : \E f \in SyncResults : Resolve(r, f)

SpecSync == InitSync /\ [][NextSync]_vars

\* ------------------------------------------- navigation specification
\* The first recomputation has applied a patch whose hunks start anywhere,
\* in any order (or none was applied yet); the cursor is on any row.
NavSeqs == SeqsUpTo({Hunk(n, 1, 1) : n \in 1..NavLine}, NavHunks)

InitNav ==
  /\ \E q \in NavSeqs :
       \/ /\ diffs = Defined(q)
          /\ markers = AddDecorations(<<>>, 1, q)
          /\ nextMarkerId = Len(q) + 1
          /\ maxApplied = 1
          /\ nextTok = 2
          /\ immediates = {}
          /\ lastOp = Plain("resolve", TRUE)
       \/ /\ q = <<>>
          /\ diffs = Undefined
          /\ markers = <<>>
          /\ nextMarkerId = 1
          /\ maxApplied = 0
          /\ nextTok = 1
          /\ immediates = {1}
          /\ lastOp = Plain("constructor", FALSE)
  /\ destroyedMarkers = {}
  /\ cursorRow \in 0..MaxRow
  /\ editorDestroyed = FALSE
  /\ disposed = FALSE
  /\ immediateId = 1
  /\ nextHandle = 2
  /\ inflight = {}

NextNav == MoveToNextDiff \/ MoveToPreviousDiff

SpecNav == InitNav /\ [][NextNav]_vars

\* ------------------------------------------------------------ typing
TypeOK ==
  /\ nextTok \in 1..(MaxFetches + 1)
  /\ cursorRow \in 0..MaxRow
  /\ inflight \subseteq 1..MaxFetches
  /\ maxApplied \in 0..MaxFetches
  /\ immediates \subseteq 1..MaxSchedules

\* ================================================================ claims
\* the decoration state: spans and classes of the tracked markers, in order
Deco(ms) ==
  [i \in 1..Len(ms) |->
     [startRow |-> ms[i].startRow, endRow |-> ms[i].endRow,
      klass |-> ms[i].klass]]

SetMin(S) == CHOOSE x \in S : \A y \in S : x <= y
SetMax(S) == CHOOSE x \in S : \A y \in S : x >= y
StartRows(ds) == {ds[i].newStart - 1 : i \in 1..Len(ds)}

\* C1: last writer wins by issue order: when a fetch resolves after a fetch
\* that was issued later has already resolved, applying the late result
\* changes neither the decorations nor the hunks stored for navigation.
C1_LastWriterWins ==
  [][\A r \in inflight :
       (/\ r \notin inflight'
        /\ lastOp'.kind = "resolve"
        /\ maxApplied > r)
       => (Deco(markers') = Deco(markers) /\ diffs'.hunks = diffs.hunks)]_vars

\* C2: once the destroy notification has been handled the tracked markers
\* stay empty, and a fetch resolving afterwards creates no marker and
\* changes neither the marker collection nor the hunks stored for
\* navigation.
C2_DestructionFinal ==
  [][/\ editorDestroyed' => markers' = <<>>
     /\ (editorDestroyed /\ lastOp'.kind = "resolve")
        => (diffs'.hunks = diffs.hunks /\ nextMarkerId' = nextMarkerId)]_vars

\* C3: after a recomputation applies a fetched hunk sequence H there are
\* exactly |H| tracked markers, the i-th built from the i-th hunk of H, and
\* every marker tracked before has been destroyed and is tracked no more.
C3_SyncExact ==
  [][(lastOp'.kind = "resolve" /\ lastOp'.flag) =>
       LET H == diffs'.hunks IN
       /\ diffs'.set
       /\ Len(markers') = Len(H)
       /\ \A i \in 1..Len(H) :
            /\ markers'[i].startRow = H[i].newStart - 1
            /\ markers'[i].klass =
                 (IF H[i].oldLines = 0 THEN "git-line-added"
                  ELSE IF H[i].newLines = 0 THEN "git-line-removed"
                  ELSE "git-line-modified")
            /\ markers'[i].id \notin destroyedMarkers'
            /\ \A j \in 1..Len(H) : markers'[j].id = markers'[i].id => j = i
       /\ \A i \in 1..Len(markers) :
            /\ markers[i].id \in destroyedMarkers'
            /\ markers[i].id \notin MarkerIds(markers')]_vars

\* C3 witness: a two-hunk patch was applied over the markers of an earlier
\* recomputation, which are now destroyed.
C3_Witness ==
  /\ lastOp.kind = "resolve" /\ lastOp.flag
  /\ Len(markers) = 2
  /\ markers[1].id > 1
  /\ (markers[1].id - 1) \in destroyedMarkers
  /\ maxApplied = 2

\* C4: the class tag of a hunk's marker is added exactly when oldLines = 0
\* and newLines > 0, removed exactly when newLines = 0 and oldLines > 0,
\* and modified exactly when both counts are positive.
C4_Classification ==
  (lastOp.kind = "resolve" /\ lastOp.flag) =>
    \A i \in 1..Len(diffs.hunks) :
      LET h == diffs.hunks[i]  k == markers[i].klass IN
      /\ (k = "git-line-added") <=> (h.oldLines = 0 /\ h.newLines > 0)
      /\ (k = "git-line-removed") <=> (h.newLines = 0 /\ h.oldLines > 0)
      /\ (k = "git-line-modified") <=> (h.oldLines > 0 /\ h.newLines > 0)

\* C4 witness: a hunk replacing two lines by three has been decorated as
\* modified.
C4_Witness ==
  /\ lastOp.kind = "resolve" /\ lastOp.flag
  /\ Len(markers) = 1
  /\ diffs.hunks[1].oldLines = 2 /\ diffs.hunks[1].newLines = 3
  /\ markers[1].klass = "git-line-modified"

\* C5 as stated: the marker of a hunk with new lines runs from row
\* newStart - 1 to row startRow + newLines - 1.
C5_SpanInclusive ==
  (lastOp.kind = "resolve" /\ lastOp.flag) =>
    \A i \in 1..Len(diffs.hunks) :
      LET h == diffs.hunks[i] IN
      h.newLines > 0 =>
        /\ markers[i].startRow = h.newStart - 1
        /\ markers[i].endRow = markers[i].startRow + h.newLines - 1

\* C5 amended: the marker of a hunk with new lines runs from
\* [newStart - 1, 0] to [newStart - 1 + newLines, 0]: its end point is
\* column 0 of the row after the hunk's last new line.
C5_SpanExclusive ==
  (lastOp.kind = "resolve" /\ lastOp.flag) =>
    \A i \in 1..Len(diffs.hunks) :
      LET h == diffs.hunks[i] IN
      h.newLines > 0 =>
        /\ markers[i].startRow = h.newStart - 1
        /\ markers[i].endRow = markers[i].startRow + h.newLines

\* C5 witness: {newStart: 5, oldLines: 0, newLines: 3} has been marked from
\* row 4 to row 7.
C5_Witness ==
  /\ lastOp.kind = "resolve" /\ lastOp.flag
  /\ diffs.hunks = <<Hunk(5, 0, 3)>>
  /\ markers[1].startRow = 4 /\ markers[1].endRow = 7

\* C6: the marker of a pure removal is a single-row marker on row
\* newStart - 1, whatever oldLines is.
C6_RemovalSingleRow ==
  (lastOp.kind = "resolve" /\ lastOp.flag) =>
    \A i \in 1..Len(diffs.hunks) :
      LET h == diffs.hunks[i] IN
      (h.newLines = 0 /\ h.oldLines > 0) =>
        /\ markers[i].startRow = h.newStart - 1
        /\ markers[i].endRow = h.newStart - 1

\* C6 witness: a removal of three lines at line 5 has been marked on row 4
\* alone.
C6_Witness ==
  /\ lastOp.kind = "resolve" /\ lastOp.flag
  /\ diffs.hunks = <<Hunk(5, 3, 0)>>
  /\ markers[1].startRow = 4 /\ markers[1].endRow = 4

\* C7: moveToNextDiff on a non-empty hunk sequence moves the cursor to the
\* least start row strictly below the cursor row, and to the least start
\* row of all hunks when there is none.
C7_NextTarget ==
  [][(lastOp'.kind = "moveToNextDiff" /\ diffs.set /\ diffs.hunks # <<>>) =>
       LET after == {x \in StartRows(diffs.hunks) : x > cursorRow} IN
       /\ lastOp'.flag
       /\ cursorRow' = IF after # {} THEN SetMin(after)
                       ELSE SetMin(StartRows(diffs.hunks))]_vars

\* C7 witness: with the cursor on the start row of the last of several
\* unordered hunks, moveToNextDiff wrapped to the first one.
C7_Witness ==
  /\ lastOp.kind = "moveToNextDiff" /\ lastOp.flag
  /\ diffs.set /\ Len(diffs.hunks) = 3
  /\ diffs.hunks[1].newStart > diffs.hunks[2].newStart
  /\ cursorRow = SetMin(StartRows(diffs.hunks))
  /\ cursorRow < SetMax(StartRows(diffs.hunks))

\* C8: moveToPreviousDiff on a non-empty hunk sequence moves the cursor to
\* the greatest start row strictly above the cursor row (row 0 included),
\* and to the greatest start row of all hunks when there is none.
C8_PreviousTarget ==
  [][(lastOp'.kind = "moveToPreviousDiff" /\ diffs.set /\ diffs.hunks # <<>>) =>
       LET before == {x \in StartRows(diffs.hunks) : x < cursorRow} IN
       /\ lastOp'.flag
       /\ cursorRow' = IF before # {} THEN SetMax(before)
                       ELSE SetMax(StartRows(diffs.hunks))]_vars

\* C8 witness: moveToPreviousDiff has put the cursor on row 0, where a hunk
\* starts, although a later hunk exists.
C8_Witness ==
  /\ lastOp.kind = "moveToPreviousDiff" /\ lastOp.flag
  /\ diffs.set
  /\ cursorRow = 0
  /\ 0 \in StartRows(diffs.hunks)
  /\ SetMax(StartRows(diffs.hunks)) > 0

\* C9: with the stored hunk sequence empty or never set, moveToNextDiff and
\* moveToPreviousDiff leave the cursor where it is and never call
\* setCursorBufferPosition.
C9_NavigationNoOp ==
  [][(/\ lastOp'.kind \in {"moveToNextDiff", "moveToPreviousDiff"}
      /\ (~diffs.set \/ diffs.hunks = <<>>))
     => (cursorRow' = cursorRow /\ ~lastOp'.flag)]_vars

\* C9 witness: moveToPreviousDiff ran on a stored but empty hunk sequence.
C9_Witness ==
  /\ lastOp.kind = "moveToPreviousDiff"
  /\ diffs.set /\ diffs.hunks = <<>>
  /\ cursorRow > 0

\* C10: an updateDiffs call that finds the editor destroyed, no path, no
\* repository, a loading repository or one that is not present issues no
\* fetch, destroys all tracked markers and leaves the collection empty.
C10_ShortCircuit ==
  [][(/\ lastOp'.kind \in UpdateKinds
      /\ \/ editorDestroyed
         \/ ~lastOp'.path
         \/ lastOp'.repo \in {"none", "loading", "absent"})
     => /\ ~lastOp'.flag
        /\ inflight' = inflight
        /\ nextTok' = nextTok
        /\ markers' = <<>>
        /\ MarkerIds(markers) \subseteq destroyedMarkers']_vars

\* C10 witness: an updateDiffs call met a loading repository after markers
\* had been created, with a fetch still in flight.
C10_Witness ==
  /\ lastOp.kind \in UpdateKinds
  /\ lastOp.repo = "loading" /\ lastOp.path /\ ~editorDestroyed
  /\ ~lastOp.flag
  /\ nextMarkerId > 1
  /\ (nextMarkerId - 1) \in destroyedMarkers
  /\ inflight # {}

\* C11: when a fetch resolves with no patch, every marker tracked before is
\* destroyed and the tracked-marker collection is empty afterwards.
C11_NoPatchClears ==
  [][(lastOp'.kind = "resolve" /\ ~lastOp'.flag) =>
       /\ markers' = <<>>
       /\ MarkerIds(markers) \subseteq destroyedMarkers']_vars

\* C11 witness: a fetch resolved with no patch after an earlier patch had
\* been decorated; the markers of that patch are destroyed.
C11_Witness ==
  /\ lastOp.kind = "resolve" /\ ~lastOp.flag
  /\ markers = <<>>
  /\ nextMarkerId > 1
  /\ (nextMarkerId - 1) \in destroyedMarkers
  /\ maxApplied = 2

\* C12: every trigger (buffer stopped changing, path changed, explicit
\* scheduleUpdate) runs no recomputation inside the trigger, cancels the
\* recomputation scheduled before and leaves exactly one scheduled.
C12_TriggerSchedules ==
  [][(lastOp'.kind \in {"didStopChanging", "didChangePath", "scheduleUpdate"})
     => /\ inflight' = inflight
        /\ nextTok' = nextTok
        /\ markers' = markers
        /\ Cardinality(immediates') = 1
        /\ immediates' \cap immediates = {}]_vars

\* C13: the destroy handler leaves no callback queued, and once it has run
\* no updateDiffs call begins, neither from the queue nor from a
\* subscription.
C13_TeardownStops ==
  [][/\ (~editorDestroyed /\ editorDestroyed') => immediates' = {}
     /\ editorDestroyed => lastOp'.kind \notin UpdateKinds]_vars

\* C13 witness: the destroy handler has cleared a queued callback while a
\* fetch was in flight.
C13_Witness ==
  /\ lastOp.kind = "didDestroy" /\ lastOp.flag
  /\ editorDestroyed
  /\ immediates = {}
  /\ inflight # {}

\* C14: at most one recomputation is scheduled and not yet started.
C14_OnePending == Cardinality(immediates) <= 1

\* C14 witness: scheduleUpdate cleared the callback queued before and queued
\* its own.
C14_Witness ==
  /\ lastOp.kind = "scheduleUpdate" /\ lastOp.flag
  /\ immediates = {immediateId}
  /\ immediateId > 1

\* C15: every completed recomputation replaces the stored hunk sequence by
\* its own: after one that yields no diff (precondition failed, or no patch)
\* navigation finds no hunks, and the stored hunks number as many as the
\* tracked markers.
C15_HunksReplaced ==
  [][(\/ lastOp'.kind = "resolve"
      \/ (lastOp'.kind \in UpdateKinds /\ ~lastOp'.flag))
     => Len(diffs'.hunks) = Len(markers')]_vars

\* C16: no handler sees a half-done sync: whenever markers are tracked they
\* are all live and there is exactly one for each stored hunk, in order.
C16_SyncAtomic ==
  markers # <<>> =>
    /\ diffs.set
    /\ Len(markers) = Len(diffs.hunks)
    /\ \A i \in 1..Len(markers) :
         /\ markers[i].id \notin destroyedMarkers
         /\ markers[i].startRow = diffs.hunks[i].newStart - 1

\* C16 witness: a navigation command runs after a two-hunk patch replaced
\* the markers of an earlier patch.
C16_Witness ==
  /\ lastOp.kind \in {"moveToNextDiff", "moveToPreviousDiff"}
  /\ Len(markers) = 2
  /\ markers[1].id > 1
  /\ destroyedMarkers # {}

\* C17: every patch request asks for context 0 and carries the buffer text
\* exactly when the editor reports unsaved modifications at that moment.
C17_FetchOptions ==
  (lastOp.kind \in UpdateKinds /\ lastOp.flag) =>
    /\ lastOp.options.context = 0
    /\ lastOp.options.content <=> lastOp.modified

\* C17 witness: a fetch has been issued for an unmodified buffer while one
\* issued earlier is still in flight.
C17_Witness ==
  /\ lastOp.kind = "didStopChanging" /\ lastOp.flag
  /\ ~lastOp.modified /\ ~lastOp.options.content
  /\ Cardinality(inflight) = 2

\* C18: when the fetch of a recomputation rejects, the tracked-marker
\* collection is cleared.
C18_RejectClears ==
  [][lastOp'.kind = "reject" => markers' = <<>>]_vars

\* C19: applying the same hunk sequence twice in a row leaves the same
\* spans and classes in the same number of live markers, and every marker
\* of the first application destroyed.
C19_SyncIdempotent ==
  [][(/\ lastOp.kind = "resolve" /\ lastOp.flag
      /\ lastOp'.kind = "resolve" /\ lastOp'.flag
      /\ diffs'.hunks = diffs.hunks)
     => /\ Deco(markers') = Deco(markers)
        /\ MarkerIds(markers) \subseteq destroyedMarkers'
        /\ MarkerIds(markers') \cap destroyedMarkers' = {}
        /\ Cardinality(MarkerIds(markers')) = Len(diffs.hunks)]_vars

\* C19 witness: the same two-hunk patch has been applied twice in a row.
C19_Witness ==
  /\ lastOp.kind = "resolve" /\ lastOp.flag
  /\ Len(markers) = 2
  /\ markers[1].id = 3
  /\ destroyedMarkers = {1, 2}
  /\ maxApplied = 2

\* C20: the markers created and not yet destroyed are exactly the tracked
\* ones; markers are created only when a patch is applied and destroyed only
\* by removeDecorations; navigation and configuration handlers change
\* neither.
C20_NoUntrackedMarker ==
  [][/\ (1..(nextMarkerId' - 1)) \ destroyedMarkers' = MarkerIds(markers')
     /\ nextMarkerId' # nextMarkerId => lastOp'.kind = "resolve"
     /\ destroyedMarkers' # destroyedMarkers =>
          lastOp'.kind \in UpdateKinds \cup {"resolve", "didDestroy"}
     /\ lastOp'.kind \in {"moveToNextDiff", "moveToPreviousDiff",
                          "updateIconDecoration"}
        => /\ markers' = markers
           /\ destroyedMarkers' = destroyedMarkers
           /\ nextMarkerId' = nextMarkerId]_vars

\* C20 witness: a configuration change puts the icon class on the gutter
\* while markers are tracked and earlier ones have been destroyed.
C20_Witness ==
  /\ lastOp.kind = "updateIconDecoration"
  /\ lastOp.flag
  /\ markers # <<>>
  /\ destroyedMarkers # {}
====
